---- MODULE Spec2Model ----
(***************************************************************************)
(* The connection registry and the asset-extraction pipeline of bot.py.    *)
(*                                                                         *)
(* The program runs on one asyncio event loop: a task runs without         *)
(* interruption from one await of an external call (or sleep) to the next. *)
(* Every action below is one such uninterrupted stretch of one task; an    *)
(* external call is modelled at the moment its answer (a value or an       *)
(* exception) comes back, the answer being an input of the action.         *)
(*                                                                         *)
(* Records of the store carry user_id, username, connection_id and         *)
(* business_connection_id.  The fifth key of the source, connected_at      *)
(* (bot.py:738, str(time.time())), is written and never read by any line   *)
(* of the program and is left out.                                         *)
(***************************************************************************)
EXTENDS Integers, Sequences, FiniteSets, Bags, TLC

(* ------------------------------ bounds -------------------------------- *)
MaxTasks  == 2   \* tasks (handlers, statistics requests, runs) in flight at once
MaxGifts  == 2   \* gifts one enumeration returns
MaxStars  == 1   \* star balance one query returns
MaxEvents == 3   \* length of the recorded history of new-connection events
MaxCount  == 3   \* gifts one sub-operation counts, where the summary is built apart
MaxBalance == 10 \* stars transferred, where the summary is built apart
MaxRecords == 2  \* length of a list a caller of the store's functions holds

(* --------------------------- input domains ---------------------------- *)
\* connection.user.id: Telegram user ids (int)
Owners == {1, 2}
\* connection.id: business connection ids (str in the source, so never equal
\* to a user id; kept apart from Owners here)
Handles == {11, 12}
\* connection.user.username: "" stands for None
Usernames == {"", "alice"}
\* config.ADMIN_IDS, the operators
ADMIN_IDS == <<901, 902>>
\* callback.from_user.id of an operator command: the operators and a stranger
Callers == {901, 902, 555}
\* config.RECIPIENT_ID, a Telegram user id (777 stands for the default,
\* 7433229383, which is beyond the integers of the model checker; only its
\* identity matters), and config.TRANSFER_FEE with its default
RECIPIENT_ID == 777
TRANSFER_FEE == 25

\* What one call of the Bot API can come back with.  aiogram raises
\* TelegramBadRequest for HTTP 400 and TelegramNotFound for 404; the text of
\* the exception is what the handlers search.  "bad_invalid" and
\* "notfound_invalid" carry BUSINESS_CONNECTION_INVALID, "bad_forbidden"
\* carries "Forbidden" or "no rights"; "other" is any other exception
\* (network, flood control, unknown).
ApiOutcomes ==
    {"ok", "bad_invalid", "bad_forbidden", "bad_other",
     "notfound_invalid", "notfound_other", "other"}

ExcClass(o) ==
    CASE o \in {"bad_invalid", "bad_forbidden", "bad_other"} -> "TelegramBadRequest"
      [] o \in {"notfound_invalid", "notfound_other"}       -> "TelegramNotFound"
      [] o = "ok"                                           -> "none"
      [] OTHER                                              -> "Exception"

HasInvalidText(o) == o \in {"bad_invalid", "notfound_invalid"}
HasForbiddenText(o) == o = "bad_forbidden"

VARIABLES
    connections_data,  \* bot.py:29, the store: a list of records
    conn_tasks,        \* handle_business_connection tasks in their notify loop
    stats_tasks,       \* show_stats_callback tasks in their probe loop
    runs,              \* process_connected_account tasks
    admin_tasks,       \* process_connection_callback and process_all_callback
                       \* tasks at their awaits
                       \* (the four are bags: tasks have no identity but their state)
    events,            \* history kept over several steps, as each specification
                       \* says: the events handled so far, the inputs of a
                       \* summary, the last heartbeat, the probes of a request
    last_op            \* history: the step just taken, as each specification says

vars == <<connections_data, conn_tasks, stats_tasks, runs, admin_tasks, events, last_op>>

\* a task is created, ends, or goes on in a new state
Put(tasks, task) == tasks (+) SetToBag({task})
Take(tasks, task) == tasks (-) SetToBag({task})
Move(tasks, task, next) == Put(Take(tasks, task), next)

(* ------------------------------ the store ----------------------------- *)
\* bot.py:35-37
load_connections == connections_data

\* bot.py:39-43: the value the global holds after save_connections(connections)
save_connections(connections) == connections

\* an is_admin that lets everyone in
is_admin_anyone(user_id) == user_id = user_id

\* bot.py:45-47
is_admin(user_id) == \E k \in 1..Len(ADMIN_IDS) : ADMIN_IDS[k] = user_id

\* bot.py:49-57: the new store and the returned boolean
remove_invalid_connection_first_only(connections, connection_id) ==
    LET Keep(conn) == conn.connection_id # connection_id
        new_connections == SelectSeq(connections, Keep)
    IN  IF Len(new_connections) < Len(connections)
        THEN [store |-> save_connections(Tail(connections)), ret |-> TRUE]
        ELSE [store |-> connections, ret |-> FALSE]

remove_invalid_connection(connections, connection_id) ==
    LET Keep(conn) == conn.connection_id # connection_id
        new_connections == SelectSeq(connections, Keep)
    IN  IF Len(new_connections) < Len(connections)
        THEN [store |-> save_connections(new_connections), ret |-> TRUE]
        ELSE [store |-> connections, ret |-> FALSE]

\* bot.py:59-83: what check_permissions does with the answer of its probe:
\* the store it leaves, whether it returns or raises, the boolean it returns,
\* and what its call of remove_invalid_connection returned ("none": no call)
Checked(store, ret, removal) ==
    [store |-> store, raised |-> FALSE, ret |-> ret, removal |-> removal]

\* a removal that takes the record probed to be still there: when no record
\* carries the connection id it drops the record that stands first
HealAndFailWhateverIsThere(connections, connection_id) ==
    LET r == remove_invalid_connection(connections, connection_id)
    IN  IF r.ret \/ connections = <<>>
        THEN Checked(r.store, FALSE, IF r.ret THEN "removed" ELSE "absent")
        ELSE Checked(Tail(connections), FALSE, "removed")

HealAndFail(connections, connection_id) ==
    LET r == remove_invalid_connection(connections, connection_id)
    IN  Checked(r.store, FALSE, IF r.ret THEN "removed" ELSE "absent")

check_permissions_forbidden_removes(connections, connection_id, outcome) ==
    IF outcome = "ok"
    THEN Checked(connections, TRUE, "none")
    ELSE IF ExcClass(outcome) = "TelegramBadRequest"
              /\ (HasInvalidText(outcome) \/ HasForbiddenText(outcome))
         THEN HealAndFail(connections, connection_id)
         ELSE IF ExcClass(outcome) = "TelegramNotFound" /\ HasInvalidText(outcome)
         THEN HealAndFail(connections, connection_id)
         ELSE Checked(connections, FALSE, "none")

check_permissions_no_catch_all(connections, connection_id, outcome) ==
    IF outcome = "ok"
    THEN Checked(connections, TRUE, "none")
    ELSE IF ExcClass(outcome) \in {"TelegramBadRequest", "TelegramNotFound"}
         THEN IF HasInvalidText(outcome)
              THEN HealAndFail(connections, connection_id)
              ELSE Checked(connections, FALSE, "none")
         ELSE [store |-> connections, raised |-> TRUE, ret |-> FALSE,
               removal |-> "none"]

check_permissions_notfound_removes(connections, connection_id, outcome) ==
    IF outcome = "ok"
    THEN Checked(connections, TRUE, "none")
    ELSE IF ExcClass(outcome) = "TelegramBadRequest"
         THEN IF HasInvalidText(outcome)
              THEN HealAndFail(connections, connection_id)
              ELSE Checked(connections, FALSE, "none")
         ELSE IF ExcClass(outcome) = "TelegramNotFound"
         THEN HealAndFail(connections, connection_id)
         ELSE Checked(connections, FALSE, "none")

check_permissions(connections, connection_id, outcome) ==
    IF outcome = "ok"
    THEN Checked(connections, TRUE, "none")                          \* :66
    ELSE IF ExcClass(outcome) = "TelegramBadRequest"                 \* :67
         THEN IF HasInvalidText(outcome)                             \* :68-70
              THEN HealAndFail(connections, connection_id)
              ELSE Checked(connections, FALSE, "none")               \* :71-74
         ELSE IF ExcClass(outcome) = "TelegramNotFound"              \* :75
         THEN IF HasInvalidText(outcome)                             \* :76-78
              THEN HealAndFail(connections, connection_id)
              ELSE Checked(connections, FALSE, "none")               \* :79-80
         ELSE Checked(connections, FALSE, "none")                    \* :81-83

(* ---------------------- process_connected_account -------------------- *)
\* bot.py:299-301: the first call of each of the three sub-operations, in the
\* order in which process_connected_account awaits them
OrderTransferFirst == <<"transfer_enum", "convert_enum", "stars_query">>

Order == <<"convert_enum", "transfer_enum", "stars_query">>

\* where a run goes when the sub-operation that began with `first` returns:
\* the next sub-operation, or the summary for the operators (bot.py:303-317)
After(first) ==
    LET n == CHOOSE n \in 1..Len(Order) : Order[n] = first
    IN  IF n < Len(Order) THEN Order[n + 1] ELSE "notify"

\* asyncio.create_task(process_connected_account(connection_id, username)):
\* the new task, about to make its first call.  gifts, i and the counts are
\* the locals of the sub-operation under way and of process_connected_account.
\* trace, attempts, delayed and saw_invalid are history: the sub-operations
\* that made a call so far, the per-item calls of the latest enumeration with their
\* outcome, whether the delay has elapsed between the previous per-item call
\* and the one in flight, and whether any call failed with
\* BUSINESS_CONNECTION_INVALID; sent is history too: the operators to whom
\* the summary has been sent so far.
NewRun(connection_id, username) ==
    [connection_id |-> connection_id, username |-> username,
     pc |-> Order[1],
     gifts |-> <<>>, i |-> 1,
     converted_count |-> 0, transferred_count |-> 0,
     stars |-> 0, transferred_stars |-> 0, k |-> 1, sent |-> <<>>,
     trace |-> <<>>, attempts |-> <<>>, delayed |-> TRUE, saw_invalid |-> FALSE]

\* history: a call of the sub-operation op is made and comes back with outcome
Note(run, op, outcome) ==
    [run EXCEPT
        !.trace = IF Len(@) > 0 /\ @[Len(@)] = op THEN @ ELSE Append(@, op),
        !.saw_invalid = @ \/ HasInvalidText(outcome)]

\* the gifts an enumeration returns: n gifts with distinct owned_gift_id
Gifts(n) == [j \in 1..n |-> j]

\* the call of the Bot API a run makes at each of its six call sites, with
\* its arguments (bot.py:241, 245, 260, 268, 282, 284)
ConvertEnumCall(run) ==
    [method |-> "get_business_account_gifts",
     business_connection_id |-> run.connection_id, exclude_unique |-> TRUE]

ConvertGiftCall(run) ==
    [method |-> "convert_gift_to_stars",
     business_connection_id |-> run.connection_id,
     owned_gift_id |-> run.gifts[run.i]]

TransferEnumCall(run) ==
    [method |-> "get_business_account_gifts",
     business_connection_id |-> run.connection_id, exclude_unique |-> FALSE]

TransferGiftCallNoFee(run) ==
    [method |-> "transfer_gift",
     business_connection_id |-> run.connection_id,
     owned_gift_id |-> run.gifts[run.i],
     new_owner_chat_id |-> RECIPIENT_ID, star_count |-> 0]

TransferGiftCall(run) ==
    [method |-> "transfer_gift",
     business_connection_id |-> run.connection_id,
     owned_gift_id |-> run.gifts[run.i],
     new_owner_chat_id |-> RECIPIENT_ID, star_count |-> TRANSFER_FEE]

StarsQueryCall(run) ==
    [method |-> "get_business_account_star_balance",
     business_connection_id |-> run.connection_id]

StarsTransferCall(run) ==
    [method |-> "transfer_business_account_stars",
     business_connection_id |-> run.connection_id, star_count |-> run.stars]

\* bot.py:317: what process_connected_account returns
Returned(run) ==
    <<run.converted_count, run.transferred_count, run.transferred_stars>>

\* bot.py:239-242, 252-254: get_business_account_gifts(exclude_unique=True)
\* comes back
ConvertEnumerated(run, outcome, n) ==
    LET r == [Note(run, "convert", outcome) EXCEPT
                 !.converted_count = 0, !.i = 1, !.attempts = <<>>,
                 !.delayed = TRUE,
                 !.gifts = IF outcome = "ok" THEN Gifts(n) ELSE <<>>]
    IN  IF outcome = "ok" /\ n > 0
        THEN [r EXCEPT !.pc = "convert_call"]
        ELSE [r EXCEPT !.pc = After("convert_enum")]

\* bot.py:243-251: convert_gift_to_stars for gift i comes back
ConvertCalledStopsOnError(run, outcome) ==
    LET r == [Note(run, "convert", outcome) EXCEPT
                 !.attempts = Append(@, [gift |-> run.gifts[run.i],
                                         ok |-> outcome = "ok"])]
    IN  IF outcome = "ok"
        THEN [r EXCEPT !.converted_count = @ + 1, !.pc = "convert_sleep"]
        ELSE [r EXCEPT !.pc = After("convert_enum")]

ConvertCalled(run, outcome) ==
    LET r == [Note(run, "convert", outcome) EXCEPT
                 !.attempts = Append(@, [gift |-> run.gifts[run.i],
                                         ok |-> outcome = "ok"])]
    IN  IF outcome = "ok"
        THEN [r EXCEPT !.converted_count = @ + 1, !.pc = "convert_sleep"]  \* :246-248
        ELSE IF run.i < Len(run.gifts)                                     \* :249-251
             THEN [r EXCEPT !.i = @ + 1, !.delayed = FALSE]
             ELSE [r EXCEPT !.i = @ + 1, !.pc = After("convert_enum")]

\* bot.py:248: asyncio.sleep(1) is over; the loop goes on or the count is
\* returned (bot.py:254)
ConvertSlept(run) ==
    IF run.i < Len(run.gifts)
    THEN [run EXCEPT !.i = @ + 1, !.pc = "convert_call", !.delayed = TRUE]
    ELSE [run EXCEPT !.i = @ + 1, !.pc = After("convert_enum")]

\* bot.py:258-263, 275-277: get_business_account_gifts(exclude_unique=False)
\* comes back
TransferEnumeratedNoCatch(run, outcome, n) ==
    LET r == [Note(run, "transfer", outcome) EXCEPT
                 !.transferred_count = 0, !.i = 1, !.attempts = <<>>,
                 !.delayed = TRUE,
                 !.gifts = IF outcome = "ok" THEN Gifts(n) ELSE <<>>]
    IN  IF outcome = "ok"
        THEN IF n > 0 THEN [r EXCEPT !.pc = "transfer_call"]
                      ELSE [r EXCEPT !.pc = After("transfer_enum")]
        ELSE [r EXCEPT !.pc = "raised"]

TransferEnumerated(run, outcome, n) ==
    LET r == [Note(run, "transfer", outcome) EXCEPT
                 !.transferred_count = 0, !.i = 1, !.attempts = <<>>,
                 !.delayed = TRUE,
                 !.gifts = IF outcome = "ok" THEN Gifts(n) ELSE <<>>]
    IN  IF outcome = "ok" /\ n > 0
        THEN [r EXCEPT !.pc = "transfer_call"]
        ELSE [r EXCEPT !.pc = After("transfer_enum")]

\* bot.py:265-274: transfer_gift for gift i comes back
TransferCalled(run, outcome) ==
    LET r == [Note(run, "transfer", outcome) EXCEPT
                 !.attempts = Append(@, [gift |-> run.gifts[run.i],
                                         ok |-> outcome = "ok"])]
    IN  IF outcome = "ok"
        THEN [r EXCEPT !.transferred_count = @ + 1, !.pc = "transfer_sleep"] \* :269-271
        ELSE IF run.i < Len(run.gifts)                                       \* :272-274
             THEN [r EXCEPT !.i = @ + 1, !.delayed = FALSE]
             ELSE [r EXCEPT !.i = @ + 1, !.pc = After("transfer_enum")]

\* bot.py:271: asyncio.sleep(1) is over
TransferSlept(run) ==
    IF run.i < Len(run.gifts)
    THEN [run EXCEPT !.i = @ + 1, !.pc = "transfer_call", !.delayed = TRUE]
    ELSE [run EXCEPT !.i = @ + 1, !.pc = After("transfer_enum")]

\* bot.py:281-283, 287-292: get_business_account_star_balance comes back
StarsQueried(run, outcome, amount) ==
    LET r == [Note(run, "stars", outcome) EXCEPT
                 !.stars = IF outcome = "ok" THEN amount ELSE 0,
                 !.transferred_stars = 0]
    IN  IF outcome = "ok" /\ amount > 0
        THEN [r EXCEPT !.pc = "stars_transfer"]
        ELSE [r EXCEPT !.pc = After("stars_query")]

\* bot.py:284-286, 290-292: transfer_business_account_stars comes back
StarsTransferred(run, outcome) ==
    [Note(run, "stars", outcome) EXCEPT
        !.transferred_stars = IF outcome = "ok" THEN run.stars ELSE 0,
        !.stars = 0,
        !.pc = After("stars_query")]

\* a run that queries the balance again instead of going on to its summary
ContinueQueriesAgain(run, next) ==
    IF next.pc = "notify"
    THEN Move(runs, run, [next EXCEPT !.pc = "stars_query"])
    ELSE Move(runs, run, next)

\* the run goes on as `next`; a run with no operator to tell ends at once
\* (bot.py:311, 317)
Continue(run, next) ==
    IF next.pc = "notify" /\ Len(ADMIN_IDS) = 0
    THEN Take(runs, run)
    ELSE Move(runs, run, next)

RunConvertEnum(run, outcome, n) ==
    /\ BagIn(run, runs) /\ run.pc = "convert_enum"
    /\ runs' = Continue(run, ConvertEnumerated(run, outcome, n))
    /\ UNCHANGED <<connections_data, conn_tasks, stats_tasks, admin_tasks>>

RunConvertCall(run, outcome) ==
    /\ BagIn(run, runs) /\ run.pc = "convert_call"
    /\ runs' = Continue(run, ConvertCalled(run, outcome))
    /\ UNCHANGED <<connections_data, conn_tasks, stats_tasks, admin_tasks>>

RunConvertSleep(run) ==
    /\ BagIn(run, runs) /\ run.pc = "convert_sleep"
    /\ runs' = Continue(run, ConvertSlept(run))
    /\ UNCHANGED <<connections_data, conn_tasks, stats_tasks, admin_tasks>>

RunTransferEnum(run, outcome, n) ==
    /\ BagIn(run, runs) /\ run.pc = "transfer_enum"
    /\ runs' = Continue(run, TransferEnumerated(run, outcome, n))
    /\ UNCHANGED <<connections_data, conn_tasks, stats_tasks, admin_tasks>>

RunTransferCall(run, outcome) ==
    /\ BagIn(run, runs) /\ run.pc = "transfer_call"
    /\ runs' = Continue(run, TransferCalled(run, outcome))
    /\ UNCHANGED <<connections_data, conn_tasks, stats_tasks, admin_tasks>>

RunTransferSleep(run) ==
    /\ BagIn(run, runs) /\ run.pc = "transfer_sleep"
    /\ runs' = Continue(run, TransferSlept(run))
    /\ UNCHANGED <<connections_data, conn_tasks, stats_tasks, admin_tasks>>

RunStarsQuery(run, outcome, amount) ==
    /\ BagIn(run, runs) /\ run.pc = "stars_query"
    /\ runs' = Continue(run, StarsQueried(run, outcome, amount))
    /\ UNCHANGED <<connections_data, conn_tasks, stats_tasks, admin_tasks>>

RunStarsTransfer(run, outcome) ==
    /\ BagIn(run, runs) /\ run.pc = "stars_transfer"
    /\ runs' = Continue(run, StarsTransferred(run, outcome))
    /\ UNCHANGED <<connections_data, conn_tasks, stats_tasks, admin_tasks>>

\* bot.py:311-315: the summary has gone to operator k, delivered or not
SummarySentStopsOnFailure(run, delivered) ==
    [run EXCEPT !.k = IF delivered THEN @ + 1 ELSE Len(ADMIN_IDS) + 1,
                !.sent = Append(@, ADMIN_IDS[run.k])]

SummarySent(run, delivered) ==
    [run EXCEPT !.k = @ + 1, !.sent = Append(@, ADMIN_IDS[run.k])]

\* bot.py:311-317: bot.send_message of the summary to operator k returns or
\* raises (logged); after the last operator the run returns its counts
RunNotify(run, delivered) ==
    /\ BagIn(run, runs) /\ run.pc = "notify"
    /\ delivered \in BOOLEAN
    /\ runs' = IF SummarySent(run, delivered).k <= Len(ADMIN_IDS)
               THEN Move(runs, run, SummarySent(run, delivered))
               ELSE Take(runs, run)
    /\ UNCHANGED <<connections_data, conn_tasks, stats_tasks, admin_tasks>>

(* ------------------- handle_business_connection ----------------------- *)
\* bot.py:729
Label(username) == IF username = "" THEN "Unknown" ELSE username

\* bot.py:733-739
connection_data(user_id, username, connection_id) ==
    [user_id |-> user_id,
     username |-> Label(username),
     connection_id |-> connection_id,
     business_connection_id |-> connection_id]

\* bot.py:741-748: replace the first record of the owner, or append
UpsertAppends(connections, rec) == Append(connections, rec)

UpsertKeepsOld(connections, rec) ==
    IF \E i \in 1..Len(connections) : connections[i].user_id = rec.user_id
    THEN connections
    ELSE Append(connections, rec)

Upsert(connections, rec) ==
    IF \E i \in 1..Len(connections) : connections[i].user_id = rec.user_id
    THEN LET i == CHOOSE i \in 1..Len(connections) :
                     /\ connections[i].user_id = rec.user_id
                     /\ \A j \in 1..(i - 1) : connections[j].user_id # rec.user_id
         IN  [connections EXCEPT ![i] = rec]
    ELSE Append(connections, rec)

\* bot.py:725-749: a new-connection event arrives; the handler stores the
\* record and reaches its first await, the message to the first operator
HandleBusinessConnection(user_id, username, connection_id) ==
    /\ connections_data' =
           save_connections(Upsert(load_connections,
                                   connection_data(user_id, username, connection_id)))
    /\ conn_tasks' = Put(conn_tasks,
           [username |-> Label(username), connection_id |-> connection_id,
            k |-> 1, sent |-> <<>>])
    /\ UNCHANGED <<stats_tasks, runs, admin_tasks>>

\* bot.py:751-765: bot.send_message to operator k returns or raises (the
\* exception is logged); after the last operator the run is spawned and the
\* handler ends
NoticeSentStopsOnFailure(task, delivered) ==
    [task EXCEPT !.k = IF delivered THEN @ + 1 ELSE Len(ADMIN_IDS) + 1,
                 !.sent = Append(@, ADMIN_IDS[task.k])]

NoticeSent(task, delivered) ==
    [task EXCEPT !.k = @ + 1, !.sent = Append(@, ADMIN_IDS[task.k])]

\* the handler awaiting the run it has launched instead of returning
NotifyStartingAwaitsRun(task, delivered) ==
    /\ BagIn(task, conn_tasks)
    /\ task.k <= Len(ADMIN_IDS)
    /\ delivered \in BOOLEAN
    /\ conn_tasks' = Move(conn_tasks, task, NoticeSent(task, delivered))
    /\ IF NoticeSent(task, delivered).k <= Len(ADMIN_IDS)
       THEN UNCHANGED runs
       ELSE runs' = Put(runs, NewRun(task.connection_id, task.username))
    /\ UNCHANGED <<connections_data, stats_tasks, admin_tasks>>

NotifyStarting(task, delivered) ==
    /\ BagIn(task, conn_tasks)
    /\ delivered \in BOOLEAN
    /\ IF NoticeSent(task, delivered).k <= Len(ADMIN_IDS)
       THEN /\ conn_tasks' = Move(conn_tasks, task, NoticeSent(task, delivered))
            /\ UNCHANGED runs
       ELSE /\ conn_tasks' = Take(conn_tasks, task)
            /\ runs' = Put(runs, NewRun(task.connection_id, task.username))
    /\ UNCHANGED <<connections_data, stats_tasks, admin_tasks>>

(* ------------------------ show_stats_callback ------------------------- *)
\* bot.py:875-885: the operator asks for statistics; the handler takes its
\* snapshot and reaches the first probe (a stranger is turned away).  Of the
\* snapshot the task keeps what its loop reads: the connection id of each
\* record it has yet to visit.
ConnectionIds(connections) ==
    [i \in 1..Len(connections) |-> connections[i].connection_id]

ShowStats(caller) ==
    /\ IF is_admin(caller)
       THEN stats_tasks' = Put(stats_tasks,
                [connections |-> ConnectionIds(load_connections),
                 total_connections |-> Len(load_connections),
                 active_count |-> 0])
       ELSE UNCHANGED stats_tasks
    /\ UNCHANGED <<connections_data, conn_tasks, runs, admin_tasks>>

\* the probe of a statistics task: the connection id probed and what
\* check_permissions makes of the answer
Probed(task) == Head(task.connections)

\* a probe whose removal works on the store as it was before the previous
\* probe came back, not on the store as it is
ProbeOnStaleStore(task, outcome) ==
    check_permissions(IF last_op # <<>> /\ last_op[1].op = "check"
                      THEN last_op[1].before ELSE load_connections,
                      Probed(task), outcome)

Probe(task, outcome) == check_permissions(load_connections, Probed(task), outcome)

\* a loop that counts a record as active whatever its probe returned
StatsProbeCountsEvery(task, outcome) ==
    /\ BagIn(task, stats_tasks)
    /\ task.connections # <<>>
    /\ connections_data' = Probe(task, outcome).store
    /\ stats_tasks' =
           IF Probe(task, outcome).raised
           THEN Take(stats_tasks, task)
           ELSE Move(stats_tasks, task,
                     [task EXCEPT !.connections = Tail(@), !.active_count = @ + 1])
    /\ UNCHANGED <<conn_tasks, runs, admin_tasks>>

\* bot.py:884-886 with 59-83: the probe of the next record comes back (an
\* exception out of check_permissions would end the handler)
StatsProbe(task, outcome) ==
    /\ BagIn(task, stats_tasks)
    /\ task.connections # <<>>
    /\ connections_data' = Probe(task, outcome).store
    /\ stats_tasks' =
           IF Probe(task, outcome).raised
           THEN Take(stats_tasks, task)
           ELSE Move(stats_tasks, task,
                     [task EXCEPT
                         !.connections = Tail(@),
                         !.active_count = IF Probe(task, outcome).ret THEN @ + 1 ELSE @])
    /\ UNCHANGED <<conn_tasks, runs, admin_tasks>>

\* bot.py:888-898: the loop is over, the statistics are sent
StatsAnswer(task) ==
    /\ BagIn(task, stats_tasks)
    /\ task.connections = <<>>
    /\ stats_tasks' = Take(stats_tasks, task)
    /\ UNCHANGED <<connections_data, conn_tasks, runs, admin_tasks>>

(* ----------------------------- get_message ---------------------------- *)
\* message.from_user.id of a business message: an owner and the recipient
Senders == {1, RECIPIENT_ID}

\* bot.py:780: next((c for c in connections if ...), None): the first record
\* with the business connection id, <<>> standing for None
FirstWith(connections, connection_id) ==
    LET found == SelectSeq(connections,
                     LAMBDA c : c.business_connection_id = connection_id)
    IN  IF found = <<>> THEN <<>> ELSE <<Head(found)>>

\* get_message whose early return tests the connection id of the message
\* where it should test its sender
GetMessageTestsBusinessId(business_id, user_id) ==
    /\ IF business_id = RECIPIENT_ID
       THEN UNCHANGED runs
       ELSE LET connection == FirstWith(load_connections, business_id)
            IN  IF connection # <<>>
                THEN runs' = Put(runs, NewRun(business_id, connection[1].username))
                ELSE UNCHANGED runs
    /\ UNCHANGED <<connections_data, conn_tasks, stats_tasks, admin_tasks>>

\* get_message without the early return for the recipient's own messages
GetMessageFromAnyone(business_id, user_id) ==
    /\ LET connection == FirstWith(load_connections, business_id)
       IN  IF connection # <<>>
           THEN runs' = Put(runs, NewRun(business_id, connection[1].username))
           ELSE UNCHANGED runs
    /\ UNCHANGED <<connections_data, conn_tasks, stats_tasks, admin_tasks>>

\* bot.py:770-783: a business message arrives; the handler has no await
GetMessage(business_id, user_id) ==
    /\ IF user_id = RECIPIENT_ID                                   \* :776-777
       THEN UNCHANGED runs
       ELSE LET connection == FirstWith(load_connections, business_id)
            IN  IF connection # <<>>                                \* :781
                THEN runs' = Put(runs, NewRun(business_id, connection[1].username))
                ELSE UNCHANGED runs
    /\ UNCHANGED <<connections_data, conn_tasks, stats_tasks, admin_tasks>>

(* ------------- process_connection_callback, process_all_callback ------ *)
\* what a callback's message.answer can come back with
AnswerOutcomes == {"ok", "other"}

\* bot.py:838: the same search on the key connection_id
FirstWithConnectionId(connections, connection_id) ==
    LET found == SelectSeq(connections,
                     LAMBDA c : c.connection_id = connection_id)
    IN  IF found = <<>> THEN <<>> ELSE <<Head(found)>>

\* bot.py:829-846: an operator presses the button of a connection; a
\* stranger is turned away, and so is a request for a connection id that no
\* record carries; else the handler awaits its "Starting manual processing"
\* message
ProcessConnection(caller, connection_id) ==
    /\ LET connection == FirstWithConnectionId(load_connections, connection_id)
       IN  IF is_admin(caller) /\ connection # <<>>
           THEN admin_tasks' = Put(admin_tasks,
                    [handler |-> "process_connection",
                     connection_id |-> connection_id,
                     username |-> connection[1].username])
           ELSE UNCHANGED admin_tasks
    /\ UNCHANGED <<connections_data, conn_tasks, stats_tasks, runs>>

\* bot.py:844-849: the message.answer comes back: the run is spawned, or the
\* exception ends the handler (nothing in it catches)
ProcessConnectionAnswered(task, outcome) ==
    /\ BagIn(task, admin_tasks) /\ task.handler = "process_connection"
    /\ admin_tasks' = Take(admin_tasks, task)
    /\ IF outcome = "ok"
       THEN runs' = Put(runs, NewRun(task.connection_id, task.username))
       ELSE UNCHANGED runs
    /\ UNCHANGED <<connections_data, conn_tasks, stats_tasks>>

\* bot.py:851-863: an operator asks for bulk processing; a stranger is
\* turned away, and so is a request on an empty store; else the handler
\* takes its snapshot and awaits its "Starting bulk processing" message.
\* connections holds the records of the snapshot the loop has yet to visit;
\* launched is history: the connection id and label of the runs spawned.
ProcessAll(caller) ==
    /\ IF is_admin(caller) /\ load_connections # <<>>
       THEN admin_tasks' = Put(admin_tasks,
                [handler |-> "process_all", pc |-> "answer",
                 connections |-> load_connections, launched |-> <<>>])
       ELSE UNCHANGED admin_tasks
    /\ UNCHANGED <<connections_data, conn_tasks, stats_tasks, runs>>

\* bot.py:865-870: one turn of the loop up to its await: the run of the next
\* record is spawned and the handler sleeps
Launch(task) ==
    [task EXCEPT
        !.pc = "sleep",
        !.connections = Tail(@),
        !.launched = Append(@, [connection_id |-> Head(task.connections).connection_id,
                                username |-> Head(task.connections).username])]

SpawnNext(task) ==
    /\ admin_tasks' = Move(admin_tasks, task, Launch(task))
    /\ runs' = Put(runs, NewRun(Head(task.connections).connection_id,
                                Head(task.connections).username))

\* bot.py:863-870: the message.answer comes back: the first run is spawned,
\* or the exception ends the handler (nothing in it catches)
ProcessAllAnswered(task, outcome) ==
    /\ BagIn(task, admin_tasks)
    /\ task.handler = "process_all" /\ task.pc = "answer"
    /\ IF outcome = "ok"
       THEN SpawnNext(task)
       ELSE admin_tasks' = Take(admin_tasks, task) /\ UNCHANGED runs
    /\ UNCHANGED <<connections_data, conn_tasks, stats_tasks>>

\* bot.py:865-872: asyncio.sleep(2) is over: the next run is spawned, or the
\* loop is over and the handler answers the callback and ends
ProcessAllSlept(task) ==
    /\ BagIn(task, admin_tasks)
    /\ task.handler = "process_all" /\ task.pc = "sleep"
    /\ IF task.connections # <<>>
       THEN SpawnNext(task)
       ELSE admin_tasks' = Take(admin_tasks, task) /\ UNCHANGED runs
    /\ UNCHANGED <<connections_data, conn_tasks, stats_tasks>>

(* ----------------- the list objects of load and save ------------------ *)
\* A caller's list: its elements, and whether it is the very object the
\* global connections_data names (is_store), so that what the caller does to
\* its list in place is done to the store as well; saved is history: the
\* list has been passed to save_connections.
LoadedIsTheStore(connections) ==
    [handler |-> "caller", elements |-> connections, is_store |-> TRUE,
     saved |-> FALSE]

\* bot.py:35-37: load_connections returns connections_data.copy(), a new
\* list object with the elements of the global's
Loaded(connections) ==
    [handler |-> "caller", elements |-> connections, is_store |-> FALSE,
     saved |-> FALSE]

SavedIsTheStore(list) == [list EXCEPT !.is_store = TRUE, !.saved = TRUE]

\* bot.py:39-42: save_connections binds the global to connections.copy(), a
\* new list object: the list passed is not the store afterwards
Saved(list) == [list EXCEPT !.is_store = FALSE, !.saved = TRUE]

\* the records a caller puts into its list
CallerRecords == {connection_data(1, "alice", 11), connection_data(2, "", 12)}

\* what a caller does to its list in place: append, del list[i],
\* list[i] = record
Mutations(list) ==
    {Append(list, r) : r \in {r \in CallerRecords : Len(list) < MaxRecords}}
        \cup {SubSeq(list, 1, i - 1) \o SubSeq(list, i + 1, Len(list)) :
                 i \in 1..Len(list)}
        \cup {[list EXCEPT ![i] = r] : i \in 1..Len(list), r \in CallerRecords}

\* a caller takes a list from the store
CallerLoads ==
    /\ admin_tasks' = Put(admin_tasks, Loaded(load_connections))
    /\ UNCHANGED <<connections_data, conn_tasks, stats_tasks, runs>>

\* a caller changes its list in place; the store changes with it when the
\* list is the store's own
CallerMutates(list, elements) ==
    /\ BagIn(list, admin_tasks) /\ list.handler = "caller"
    /\ elements \in Mutations(list.elements)
    /\ admin_tasks' = Move(admin_tasks, list, [list EXCEPT !.elements = elements])
    /\ connections_data' = IF list.is_store THEN elements ELSE connections_data
    /\ UNCHANGED <<conn_tasks, stats_tasks, runs>>

\* a caller passes its list to save_connections: the global is bound anew,
\* so no list held before is the store afterwards, except as Saved says
CallerSaves(list) ==
    /\ BagIn(list, admin_tasks) /\ list.handler = "caller"
    /\ connections_data' = save_connections(list.elements)
    /\ admin_tasks' =
           LET others == Take(admin_tasks, list)
               unbound(t) == IF t.handler = "caller"
                             THEN [t EXCEPT !.is_store = FALSE] ELSE t
           IN  Put(BagOfAll(unbound, others), Saved(list))
    /\ UNCHANGED <<conn_tasks, stats_tasks, runs>>

\* a caller returns; its list is dropped
CallerReturns(list) ==
    /\ BagIn(list, admin_tasks) /\ list.handler = "caller"
    /\ admin_tasks' = Take(admin_tasks, list)
    /\ UNCHANGED <<connections_data, conn_tasks, stats_tasks, runs>>

(* ------------ view_connections_callback, manual_process_callback ------ *)
\* bot.py:786-802: what the handler answers: "denied" to a stranger, else the
\* label and owner id of each record (none: "No active connections found.")
view_connections_callback(caller) ==
    IF ~is_admin(caller)
    THEN [answer |-> "denied", lines |-> <<>>]
    ELSE [answer |-> "connections",
          lines |-> [i \in 1..Len(load_connections) |->
                        <<load_connections[i].username,
                          load_connections[i].user_id>>]]

\* bot.py:804-827: "denied" to a stranger, else one button per record, with
\* the callback data "process_" + connection id
manual_process_callback(caller) ==
    IF ~is_admin(caller)
    THEN [answer |-> "denied", lines |-> <<>>]
    ELSE [answer |-> "buttons",
          lines |-> [i \in 1..Len(load_connections) |->
                        [prefix |-> "process_",
                         rest |-> load_connections[i].connection_id]]]

\* neither handler writes anything or creates a task
Answers ==
    UNCHANGED <<connections_data, conn_tasks, stats_tasks, runs, admin_tasks>>

(* ----------------------------- heartbeat ------------------------------ *)
\* a heartbeat that returns after its first signal
SignalOnce(last) ==
    IF last = <<>> THEN <<[op |-> "heartbeat", odd |-> TRUE]>> ELSE last

\* bot.py:904: logger.info("Bot heartbeat - still running...").  The signal
\* leaves no state behind; `last` is history, the last signal emitted with
\* the parity of its number, so that each signal is a step that shows.
Signal(last) ==
    <<[op |-> "heartbeat", odd |-> last = <<>> \/ ~last[1].odd]>>

\* bot.py:901-905, 913: the task main creates: asyncio.sleep(300) is over (or
\* the task starts), the loop emits its signal and sleeps again
Heartbeat ==
    /\ events' = Signal(events)
    /\ UNCHANGED <<connections_data, conn_tasks, stats_tasks, runs, admin_tasks>>

(* --------------------------- the summary ------------------------------ *)
\* Decimal text is a sequence of digits.  int(text) of config.py:14, and
\* the f-string's {n} of bot.py:303-309 for n >= 0.
RECURSIVE ParseInt(_)
ParseInt(text) ==
    IF Len(text) = 0 THEN 0
    ELSE 10 * ParseInt(SubSeq(text, 1, Len(text) - 1)) + text[Len(text)]

RECURSIVE Format(_)
Format(n) == IF n < 10 THEN <<n>> ELSE Append(Format(n \div 10), n % 10)

\* config.py:14: int(os.getenv("TRANSFER_FEE") or "25"); env is the text of
\* the variable, <<>> when it is unset or empty
ConfigTransferFee(env) == IF env = <<>> THEN TRANSFER_FEE ELSE ParseInt(env)

\* the environments a process is started with
FeeEnvs == {<<>>, <<0>>, <<2, 5>>, <<1, 0, 0>>}

\* a summary whose cost line multiplies the wrong count
SummaryCostOfConverted(counts, fee) ==
    [converted |-> Format(counts[1]),
     transferred |-> Format(counts[2]),
     stars |-> Format(counts[3]),
     total_cost |-> Format(counts[1] * fee)]

\* bot.py:303-309: the numbers in the four lines of the summary text, for
\* the counts <<converted_count, transferred_count, transferred_stars>>
Summary(counts, fee) ==
    [converted |-> Format(counts[1]),
     transferred |-> Format(counts[2]),
     stars |-> Format(counts[3]),
     total_cost |-> Format(counts[2] * fee)]

(* ------------------------ callback queries --------------------------- *)
\* The data of the operators' buttons: "process_" followed by a connection
\* id (bot.py:821) and "process_all" (bot.py:358), split as
\* data.split("_", 1) splits them (bot.py:835); ALL stands for the text
\* "all", which is the connection id of no record.
ALL == 0

CallbackDatas == [prefix : {"process_"}, rest : Handles \cup {ALL}]

\* the handlers of these data in the order of their registration, and the
\* filter of each: F.data.startswith("process_") (bot.py:829) and
\* F.data == "process_all" (bot.py:851)
CallbackHandlers == <<"process_connection_callback", "process_all_callback">>

Passes(handler, data) ==
    CASE handler = "process_connection_callback" -> data.prefix = "process_"
      [] handler = "process_all_callback" ->
             data = [prefix |-> "process_", rest |-> ALL]

\* the dispatcher calls the first registered handler whose filter passes
Route(data) ==
    LET passing == SelectSeq(CallbackHandlers, LAMBDA h : Passes(h, data))
    IN  IF passing = <<>> THEN "UNHANDLED" ELSE Head(passing)

CallbackQuery(caller, data) ==
    CASE Route(data) = "process_connection_callback" ->
             ProcessConnection(caller, data.rest)
      [] Route(data) = "process_all_callback" -> ProcessAll(caller)
      [] OTHER -> UNCHANGED <<connections_data, conn_tasks, stats_tasks,
                              admin_tasks, runs>>

(* ------------------------------ Init ---------------------------------- *)
Init ==
    /\ connections_data = <<>>
    /\ conn_tasks = EmptyBag
    /\ stats_tasks = EmptyBag
    /\ runs = EmptyBag
    /\ admin_tasks = EmptyBag
    /\ events = <<>>
    /\ last_op = <<>>

(* --------------------------- specifications --------------------------- *)
InFlight ==
    BagCardinality(conn_tasks) + BagCardinality(stats_tasks)
        + BagCardinality(runs) + BagCardinality(admin_tasks)

\* one step of a pipeline run whose calls come back with an outcome of
\* `outs`, its enumerations with at most g gifts, its balance query with an
\* amount of `amounts`
RunStep(g, outs, amounts) ==
    \E r \in BagToSet(runs) :
        \/ \E o \in outs, n \in 0..g : RunConvertEnum(r, o, n)
        \/ \E o \in outs : RunConvertCall(r, o)
        \/ RunConvertSleep(r)
        \/ \E o \in outs, n \in 0..g : RunTransferEnum(r, o, n)
        \/ \E o \in outs : RunTransferCall(r, o)
        \/ RunTransferSleep(r)
        \/ \E o \in outs, a \in amounts : RunStarsQuery(r, o, a)
        \/ \E o \in outs : RunStarsTransfer(r, o)
        \/ \E d \in BOOLEAN : RunNotify(r, d)

\* the same for an account with no gift and no star
RunStepEmpty(outs) ==
    \E r \in BagToSet(runs) :
        \/ \E o \in outs : RunConvertEnum(r, o, 0)
        \/ \E o \in outs : RunTransferEnum(r, o, 0)
        \/ \E o \in outs : RunStarsQuery(r, o, 0)
        \/ \E d \in BOOLEAN : RunNotify(r, d)

\* SpecGrants, new-connection events alone (no check, so no removal), one
\* after the other, with the history of the events handled; the runs they
\* spawn find no gift
NextGrants ==
    \/ \E u \in Owners, n \in Usernames, c \in Handles :
           /\ InFlight = 0
           /\ Len(events) < MaxEvents
           /\ HandleBusinessConnection(u, n, c)
           /\ events' = Append(events,
                  [user_id |-> u, username |-> n, connection_id |-> c])
           /\ UNCHANGED last_op
    \/ /\ \/ \E t \in BagToSet(conn_tasks), d \in BOOLEAN : NotifyStarting(t, d)
          \/ RunStepEmpty({"ok"})
       /\ UNCHANGED <<events, last_op>>

SpecGrants == Init /\ [][NextGrants]_vars

\* Spec, the whole program, up to MaxTasks tasks interleaved: new-connection
\* events, statistics requests with their permission checks, and pipeline
\* runs (on accounts with no gift).  last_op is the history of the step just
\* taken (empty after a step that is neither of these): for a probe of
\* check_permissions that has come back, the connection id probed, the
\* answer, the store before and after, and what check_permissions and its
\* call of remove_invalid_connection returned; for a new-connection event,
\* its owner and connection id.
Next ==
    \/ \E t \in BagToSet(stats_tasks), o \in ApiOutcomes :
           /\ StatsProbe(t, o)
           /\ last_op' = <<[op |-> "check",
                            connection_id |-> Probed(t), outcome |-> o,
                            before |-> connections_data,
                            after |-> connections_data',
                            raised |-> Probe(t, o).raised,
                            ret |-> Probe(t, o).ret,
                            removal |-> Probe(t, o).removal]>>
           /\ UNCHANGED events
    \/ \E u \in Owners, c \in Handles :
           /\ InFlight < MaxTasks
           /\ HandleBusinessConnection(u, "alice", c)
           /\ last_op' = <<[op |-> "connect", user_id |-> u, connection_id |-> c]>>
           /\ UNCHANGED events
    \/ /\ \/ \E t \in BagToSet(conn_tasks), d \in BOOLEAN : NotifyStarting(t, d)
          \/ \E a \in Callers : InFlight < MaxTasks /\ ShowStats(a)
          \/ \E t \in BagToSet(stats_tasks) : StatsAnswer(t)
          \/ RunStepEmpty({"ok", "bad_invalid"})
       /\ last_op' = <<>>
       /\ UNCHANGED events

Spec == Init /\ [][Next]_vars

\* SpecRun, one pipeline run at a time, spawned by a new-connection event;
\* its enumerations return up to MaxGifts gifts
NextRun ==
    /\ \/ InFlight = 0 /\ HandleBusinessConnection(1, "alice", 11)
       \/ \E t \in BagToSet(conn_tasks), d \in BOOLEAN : NotifyStarting(t, d)
       \/ RunStep(MaxGifts, ApiOutcomes, 0..MaxStars)
    /\ UNCHANGED <<events, last_op>>

SpecRun == Init /\ [][NextRun]_vars

\* SpecCalls, one pipeline run at a time as in SpecRun, with the history of
\* the step just taken in last_op: for a call of the Bot API by the run, the
\* call with its arguments, its outcome and the value it returned (the
\* number of gifts, the balance); for a notification, the operator it went
\* to, whether it was delivered, the operators of this fan-out to whom
\* delivery failed, the operators attempted so far, whether the fan-out is
\* over and, for the summary, the counts of the run before and after.
Called(call, outcome, value) ==
    <<[op |-> "call", call |-> call, outcome |-> outcome, value |-> value]>>

FailedSoFar(kind, to, delivered) ==
    (IF last_op # <<>> /\ last_op[1].op = kind /\ ~last_op[1].done
     THEN last_op[1].failed ELSE {})
        \cup (IF delivered THEN {} ELSE {to})

Sent(kind, task, next, delivered) ==
    <<[op |-> kind, to |-> ADMIN_IDS[task.k], delivered |-> delivered,
       failed |-> FailedSoFar(kind, ADMIN_IDS[task.k], delivered),
       sent |-> next.sent, done |-> next.k > Len(ADMIN_IDS),
       connection_id |-> task.connection_id, username |-> task.username,
       before |-> IF kind = "summary" THEN Returned(task) ELSE <<>>,
       result |-> IF kind = "summary" THEN Returned(next) ELSE <<>>]>>

NextCalls ==
    /\ UNCHANGED events
    /\ \/ /\ InFlight = 0
          /\ HandleBusinessConnection(1, "alice", 11)
          /\ last_op' = <<[op |-> "connect", user_id |-> 1, connection_id |-> 11]>>
       \/ \E t \in BagToSet(conn_tasks), d \in BOOLEAN :
              /\ NotifyStarting(t, d)
              /\ last_op' = Sent("notice", t, NoticeSent(t, d), d)
       \/ \E r \in BagToSet(runs), o \in ApiOutcomes, n \in 0..MaxGifts :
              /\ RunConvertEnum(r, o, n)
              /\ last_op' = Called(ConvertEnumCall(r), o, n)
       \/ \E r \in BagToSet(runs), o \in ApiOutcomes :
              /\ RunConvertCall(r, o)
              /\ last_op' = Called(ConvertGiftCall(r), o, 0)
       \/ \E r \in BagToSet(runs) :
              /\ RunConvertSleep(r) \/ RunTransferSleep(r)
              /\ last_op' = <<[op |-> "sleep"]>>
       \/ \E r \in BagToSet(runs), o \in ApiOutcomes, n \in 0..MaxGifts :
              /\ RunTransferEnum(r, o, n)
              /\ last_op' = Called(TransferEnumCall(r), o, n)
       \/ \E r \in BagToSet(runs), o \in ApiOutcomes :
              /\ RunTransferCall(r, o)
              /\ last_op' = Called(TransferGiftCall(r), o, 0)
       \/ \E r \in BagToSet(runs), o \in ApiOutcomes, a \in 0..MaxStars :
              /\ RunStarsQuery(r, o, a)
              /\ last_op' = Called(StarsQueryCall(r), o, a)
       \/ \E r \in BagToSet(runs), o \in ApiOutcomes :
              /\ RunStarsTransfer(r, o)
              /\ last_op' = Called(StarsTransferCall(r), o, 0)
       \/ \E r \in BagToSet(runs), d \in BOOLEAN :
              /\ RunNotify(r, d)
              /\ last_op' = Sent("summary", r, SummarySent(r, d), d)

SpecCalls == Init /\ [][NextCalls]_vars

\* SpecTriggers, the four triggers of a run, up to MaxTasks tasks interleaved:
\* new-connection events (of two owners, each with a connection id of its
\* own, the second without a username), business messages, and the
\* operators' callback queries; the runs find no gift, their calls succeed
\* and their summaries are delivered.  last_op is the history of the step just taken (empty
\* after the step of a run): the event or request with its inputs, and the
\* store and the runs in flight before it.
TriggerGrants ==
    {[user_id |-> 1, username |-> "alice", connection_id |-> 11],
     [user_id |-> 2, username |-> "", connection_id |-> 12]}

Before == [before |-> connections_data, runs_before |-> runs]

NextTriggers ==
    /\ UNCHANGED events
    /\ \/ \E g \in TriggerGrants :
              /\ InFlight < MaxTasks
              /\ HandleBusinessConnection(g.user_id, g.username, g.connection_id)
              /\ last_op' = <<[op |-> "connect", user_id |-> g.user_id,
                               connection_id |-> g.connection_id]>>
       \/ \E t \in BagToSet(conn_tasks), d \in BOOLEAN :
              /\ NotifyStarting(t, d)
              /\ last_op' = Sent("notice", t, NoticeSent(t, d), d)
       \/ \E b \in Handles, u \in Senders :
              /\ InFlight < MaxTasks
              /\ GetMessage(b, u)
              /\ last_op' = <<[op |-> "message", business_id |-> b, user_id |-> u,
                               st |-> Before]>>
       \/ \E a \in Callers, d \in CallbackDatas :
              /\ InFlight < MaxTasks
              /\ CallbackQuery(a, d)
              /\ last_op' = <<[op |-> "callback_query", caller |-> a,
                               data |-> d, st |-> Before]>>
       \/ \E t \in BagToSet(admin_tasks), o \in AnswerOutcomes :
              /\ ProcessConnectionAnswered(t, o)
              /\ last_op' = <<[op |-> "process_connection_answered", task |-> t,
                               outcome |-> o, st |-> Before]>>
       \/ \E r \in BagToSet(runs) :
              /\ \/ RunConvertEnum(r, "ok", 0)
                 \/ RunTransferEnum(r, "ok", 0)
                 \/ RunStarsQuery(r, "ok", 0)
                 \/ RunNotify(r, TRUE)
              /\ last_op' = <<>>

SpecTriggers == Init /\ [][NextTriggers]_vars

\* SpecBulk, process_all_callback called as a function, past the dispatcher
\* (which never calls it, see Route): new-connection events one after the
\* other, then bulk requests and the runs they spawn.
NextBulk ==
    /\ UNCHANGED events
    /\ \/ \E g \in TriggerGrants :
              /\ InFlight = 0
              /\ HandleBusinessConnection(g.user_id, g.username, g.connection_id)
              /\ last_op' = <<[op |-> "connect", user_id |-> g.user_id,
                               connection_id |-> g.connection_id]>>
       \/ \E t \in BagToSet(conn_tasks) :
              /\ NotifyStarting(t, TRUE)
              /\ last_op' = Sent("notice", t, NoticeSent(t, TRUE), TRUE)
       \/ \E a \in Callers :
              /\ InFlight < MaxTasks
              /\ ProcessAll(a)
              /\ last_op' = <<[op |-> "process_all", caller |-> a, st |-> Before]>>
       \/ \E t \in BagToSet(admin_tasks), o \in AnswerOutcomes :
              /\ ProcessAllAnswered(t, o)
              /\ last_op' = <<[op |-> "process_all_step", task |-> t, slept |-> FALSE,
                               outcome |-> o, st |-> Before]>>
       \/ \E t \in BagToSet(admin_tasks) :
              /\ ProcessAllSlept(t)
              /\ last_op' = <<[op |-> "process_all_step", task |-> t, slept |-> TRUE,
                               outcome |-> "ok", st |-> Before]>>
       \/ \E r \in BagToSet(runs) :
              /\ \/ RunConvertEnum(r, "ok", 0)
                 \/ RunTransferEnum(r, "ok", 0)
                 \/ RunStarsQuery(r, "ok", 0)
                 \/ RunNotify(r, TRUE)
              /\ last_op' = <<>>

SpecBulk == Init /\ [][NextBulk]_vars

\* SpecLive, runs to their end: up to MaxEvents triggering events in all
\* (events is their history), new connections of one owner and business
\* messages on its connection id, at most two tasks at a time; each call of
\* a run returns or fails, an enumeration returns one gift at most, and the
\* event loop gives every task that can go on its turn (weak fairness of
\* the steps of the runs).
LiveTrigger ==
    /\ InFlight < 2
    /\ Len(events) < MaxEvents
    /\ \/ /\ HandleBusinessConnection(1, "alice", 11)
          /\ events' = Append(events, "connect")
          /\ last_op' = <<[op |-> "connect", user_id |-> 1, connection_id |-> 11]>>
       \/ /\ GetMessage(11, 1)
          /\ events' = Append(events, "message")
          /\ last_op' = <<[op |-> "message", business_id |-> 11, user_id |-> 1,
                           st |-> Before]>>

LiveNotice ==
    /\ \E t \in BagToSet(conn_tasks) :
           /\ NotifyStarting(t, TRUE)
           /\ last_op' = Sent("notice", t, NoticeSent(t, TRUE), TRUE)
    /\ UNCHANGED events

LiveRunStep ==
    /\ \E r \in BagToSet(runs) :
           \/ /\ \/ \E o \in {"ok", "other"}, n \in 0..1 : RunConvertEnum(r, o, n)
                 \/ \E o \in {"ok", "other"} : RunConvertCall(r, o)
                 \/ RunConvertSleep(r)
                 \/ \E o \in {"ok", "other"}, n \in 0..1 : RunTransferEnum(r, o, n)
                 \/ \E o \in {"ok", "other"} : RunTransferCall(r, o)
                 \/ RunTransferSleep(r)
                 \/ \E o \in {"ok", "other"}, a \in 0..1 : RunStarsQuery(r, o, a)
                 \/ \E o \in {"ok", "other"} : RunStarsTransfer(r, o)
              /\ last_op' = <<>>
           \/ \E d \in BOOLEAN :
                 /\ RunNotify(r, d)
                 /\ last_op' = Sent("summary", r, SummarySent(r, d), d)
    /\ UNCHANGED events

NextLive == LiveTrigger \/ LiveNotice \/ LiveRunStep

SpecLive == Init /\ [][NextLive]_vars /\ WF_vars(LiveRunStep)

\* SpecSummary, the summary text as a function of what it is built from:
\* a process started with each environment of FeeEnvs reaches bot.py:303
\* with each triple of counts up to MaxCount gifts and MaxBalance stars
\* (events holds the environment and the counts), and builds the text.
InitSummary ==
    /\ connections_data = <<>>
    /\ conn_tasks = EmptyBag
    /\ stats_tasks = EmptyBag
    /\ runs = EmptyBag
    /\ admin_tasks = EmptyBag
    /\ events \in {<<[env |-> e, counts |-> <<c, t, b>>]>> :
                      e \in FeeEnvs, c \in 0..MaxCount, t \in 0..MaxCount,
                      b \in 0..MaxBalance}
    /\ last_op = <<>>

BuildSummary ==
    /\ last_op = <<>>
    /\ last_op' = <<[op |-> "summary_text",
                     summary |-> Summary(events[1].counts,
                                         ConfigTransferFee(events[1].env))]>>
    /\ UNCHANGED <<connections_data, conn_tasks, stats_tasks, runs,
                   admin_tasks, events>>

NextSummary == BuildSummary

SpecSummary == InitSummary /\ [][NextSummary]_vars

\* SpecSnapshot, the callers of load_connections and save_connections and
\* what they do to their lists, up to two callers at a time; last_op is the
\* step just taken with the store before it.
NextSnapshot ==
    /\ UNCHANGED events
    /\ \/ /\ InFlight < 2
          /\ CallerLoads
          /\ last_op' = <<[op |-> "load", st |-> Before]>>
       \/ \E t \in BagToSet(admin_tasks) :
              \E e \in Mutations(t.elements) :
                  /\ CallerMutates(t, e)
                  /\ last_op' = <<[op |-> "mutate", list |-> t, elements |-> e,
                                   st |-> Before]>>
       \/ \E t \in BagToSet(admin_tasks) :
              /\ CallerSaves(t)
              /\ last_op' = <<[op |-> "save", list |-> t, st |-> Before]>>
       \/ \E t \in BagToSet(admin_tasks) :
              /\ CallerReturns(t)
              /\ last_op' = <<[op |-> "return", list |-> t, st |-> Before]>>

SpecSnapshot == Init /\ [][NextSnapshot]_vars

\* SpecHeartbeat, the heartbeat task beside up to MaxTasks handlers and runs
\* (new connections of one owner, business messages on its connection id,
\* runs on an account with no gift whose calls return or fail).  events is
\* the last signal emitted.  The event loop resumes the heartbeat whenever
\* its sleep is over (weak fairness of Heartbeat); of the runs nothing is
\* assumed: they may stay in flight for ever.
HeartbeatStep ==
    /\ Heartbeat
    /\ last_op' = <<[op |-> "heartbeat", st |-> Before]>>

NextHeartbeat ==
    \/ HeartbeatStep
    \/ /\ UNCHANGED events
       /\ \/ /\ InFlight < MaxTasks
             /\ HandleBusinessConnection(1, "alice", 11)
             /\ last_op' = <<[op |-> "connect", user_id |-> 1, connection_id |-> 11]>>
          \/ \E t \in BagToSet(conn_tasks) :
                 /\ NotifyStarting(t, TRUE)
                 /\ last_op' = <<>>
          \/ /\ InFlight < MaxTasks
             /\ GetMessage(11, 1)
             /\ last_op' = <<[op |-> "message", business_id |-> 11, user_id |-> 1,
                              st |-> Before]>>
          \/ RunStepEmpty({"ok", "other"}) /\ last_op' = <<>>

SpecHeartbeat == Init /\ [][NextHeartbeat]_vars /\ WF_vars(HeartbeatStep)

\* SpecCommands, the operators' commands, from the operators and from a
\* stranger, beside new-connection events and runs, up to MaxTasks tasks
\* interleaved: list, manual menu, the callback queries "process_...", and
\* statistics with its probes.  last_op is the command of the step just
\* taken, with who sent it, what was answered at once, and the store and
\* the tasks before it (empty after a step that is not a command).
BeforeCommand ==
    [before |-> connections_data, runs_before |-> runs,
     stats_before |-> stats_tasks, admin_before |-> admin_tasks,
     conn_before |-> conn_tasks]

NoAnswer == [answer |-> "none", lines |-> <<>>]

Command(command, data, caller, answer) ==
    <<[op |-> "command", command |-> command, data |-> data, caller |-> caller,
       answer |-> answer, st |-> BeforeCommand]>>

NextCommands ==
    /\ UNCHANGED events
    /\ \/ \E a \in Callers :
              /\ Answers
              /\ last_op' = Command("view_connections", <<>>, a,
                                  view_connections_callback(a))
       \/ \E a \in Callers :
              /\ Answers
              /\ last_op' = Command("manual_process", <<>>, a,
                                  manual_process_callback(a))
       \/ \E a \in Callers, d \in CallbackDatas :
              /\ InFlight < MaxTasks
              /\ CallbackQuery(a, d)
              /\ last_op' = Command("callback_query", <<d>>, a, NoAnswer)
       \/ \E a \in Callers :
              /\ InFlight < MaxTasks
              /\ ShowStats(a)
              /\ last_op' = Command("show_stats", <<>>, a, NoAnswer)
       \/ /\ \/ \E g \in TriggerGrants :
                    /\ InFlight < MaxTasks
                    /\ HandleBusinessConnection(g.user_id, g.username, g.connection_id)
             \/ \E t \in BagToSet(conn_tasks) : NotifyStarting(t, TRUE)
             \/ \E t \in BagToSet(admin_tasks), o \in AnswerOutcomes :
                    ProcessConnectionAnswered(t, o)
             \/ \E t \in BagToSet(stats_tasks), o \in {"ok", "bad_invalid"} :
                    StatsProbe(t, o)
             \/ \E t \in BagToSet(stats_tasks) : StatsAnswer(t)
             \/ \E r \in BagToSet(runs) :
                    \/ RunConvertEnum(r, "ok", 0)
                    \/ RunTransferEnum(r, "ok", 0)
                    \/ RunStarsQuery(r, "ok", 0)
                    \/ RunNotify(r, TRUE)
          /\ last_op' = <<>>

SpecCommands == Init /\ [][NextCommands]_vars

\* SpecStats, one statistics request at a time beside new-connection events
\* and runs, up to MaxTasks tasks interleaved.  events is the history of the
\* request in progress: the connection ids of its snapshot, then each probe
\* that has come back with what check_permissions returned and whether it
\* removed a record; last_op, after the step that sends the statistics, is
\* what is reported with that history and the store at that time.
NextStats ==
    \/ \E a \in Callers :
           /\ InFlight < MaxTasks
           /\ stats_tasks = EmptyBag
           /\ ShowStats(a)
           /\ events' = IF is_admin(a)
                        THEN <<[op |-> "snapshot",
                                connections |-> ConnectionIds(connections_data)]>>
                        ELSE events
           /\ last_op' = <<>>
    \/ \E t \in BagToSet(stats_tasks), o \in {"ok", "bad_invalid", "other"} :
           /\ StatsProbe(t, o)
           /\ events' = Append(events,
                               [op |-> "probe", connection_id |-> Probed(t),
                                ret |-> Probe(t, o).ret,
                                removal |-> Probe(t, o).removal])
           /\ last_op' = <<>>
    \/ \E t \in BagToSet(stats_tasks) :
           /\ StatsAnswer(t)
           /\ last_op' = <<[op |-> "stats",
                            total_connections |-> t.total_connections,
                            active_count |-> t.active_count,
                            history |-> events]>>
           /\ events' = <<>>
    \/ /\ \/ \E u \in Owners, c \in Handles :
                 /\ InFlight < MaxTasks
                 /\ HandleBusinessConnection(u, "alice", c)
          \/ \E t \in BagToSet(conn_tasks) : NotifyStarting(t, TRUE)
          \/ \E r \in BagToSet(runs) :
                 \/ RunConvertEnum(r, "ok", 0)
                 \/ RunTransferEnum(r, "ok", 0)
                 \/ RunStarsQuery(r, "ok", 0)
                 \/ RunNotify(r, TRUE)
       /\ UNCHANGED events
       /\ last_op' = <<>>

SpecStats == Init /\ [][NextStats]_vars

(* ------------------------------ claims -------------------------------- *)
HasRecordWith(connections, connection_id) ==
    \E i \in 1..Len(connections) : connections[i].connection_id = connection_id

\* C1: in every reachable state the store holds at most one record per
\* owner id, whatever the interleaving of new-connection events, permission
\* checks with their removals, and pipeline runs.
C1_OneRecordPerOwner ==
    \A i, j \in 1..Len(connections_data) :
        connections_data[i].user_id = connections_data[j].user_id => i = j

\* two owners are stored while a statistics request has made a check and a
\* run is in flight
C1_Witness ==
    /\ Len(connections_data) = 2
    /\ BagCardinality(runs) = 1
    /\ \E t \in BagToSet(stats_tasks) : Len(t.connections) < t.total_connections

\* C2: after any sequence of new-connection events and no removal, the
\* store holds exactly one record per distinct owner of the sequence, and the
\* record of each owner carries the connection id and the label of that
\* owner's last event ("Unknown" when the event had no username).
C2_LastGrantWins ==
    LET granted == {events[i].user_id : i \in 1..Len(events)}
        Last(o) == events[CHOOSE i \in 1..Len(events) :
                              /\ events[i].user_id = o
                              /\ \A j \in (i + 1)..Len(events) : events[j].user_id # o]
    IN  /\ Len(connections_data) = Cardinality(granted)
        /\ \A o \in granted :
               \E i \in 1..Len(connections_data) :
                   /\ connections_data[i].user_id = o
                   /\ connections_data[i].connection_id = Last(o).connection_id
                   /\ connections_data[i].username =
                          IF Last(o).username = "" THEN "Unknown" ELSE Last(o).username

\* the events came from owners a, b, a, the second grant of a with another
\* connection id, and the store holds two records
C2_Witness ==
    /\ Len(events) = 3
    /\ events[1].user_id = events[3].user_id
    /\ events[1].user_id # events[2].user_id
    /\ events[1].connection_id # events[3].connection_id
    /\ Len(connections_data) = 2

\* the last step was the return of a probe of check_permissions
JustChecked == last_op # <<>> /\ last_op[1].op = "check"

RemoveCalled == JustChecked /\ last_op[1].removal # "none"

\* C3 (as amended): remove_invalid_connection is keyed by the connection id:
\* called with a connection id that no record carries it returns false and
\* leaves the store unchanged; called with one that a record carries it
\* returns true, and afterwards no record carries that connection id while
\* every record with another connection id is kept, in order.
C3_RemoveByConnectionId ==
    RemoveCalled =>
        LET c == last_op[1]
            Other(rec) == rec.connection_id # c.connection_id
        IN  IF HasRecordWith(c.before, c.connection_id)
            THEN /\ c.removal = "removed"
                 /\ ~HasRecordWith(c.after, c.connection_id)
                 /\ c.after = SelectSeq(c.before, Other)
            ELSE /\ c.removal = "absent"
                 /\ c.after = c.before

\* a removal returned true on a store of two records and left the other one
C3_Witness ==
    /\ RemoveCalled
    /\ last_op[1].removal = "removed"
    /\ Len(last_op[1].before) = 2
    /\ Len(last_op[1].after) = 1

\* C3 (as claimed): remove(ownerId): called with an id that is the owner id of
\* no record it returns false and leaves the store unchanged; called with the
\* owner id of a record it returns true, and afterwards the store has no
\* record of that owner while every other record is unchanged.
C3_RemoveByOwnerId ==
    RemoveCalled =>
        LET c == last_op[1]
            Other(rec) == rec.user_id # c.connection_id
        IN  IF \E i \in 1..Len(c.before) : c.before[i].user_id = c.connection_id
            THEN /\ c.removal = "removed"
                 /\ \A i \in 1..Len(c.after) : c.after[i].user_id # c.connection_id
                 /\ c.after = SelectSeq(c.before, Other)
            ELSE /\ c.removal = "absent"
                 /\ c.after = c.before

\* C4: when the probe of check_permissions fails with the invalid-delegation
\* error, no record with the probed connection id is left and the result is
\* false; when it fails with a forbidden / no-rights error, the result is
\* false and the store is as before; when it succeeds, the result is true and
\* the store is as before.
C4_CheckOutcomes ==
    JustChecked =>
        LET c == last_op[1]
        IN  /\ c.outcome \in {"bad_invalid", "notfound_invalid"} =>
                   /\ ~c.raised /\ c.ret = FALSE
                   /\ ~HasRecordWith(c.after, c.connection_id)
            /\ c.outcome = "bad_forbidden" =>
                   ~c.raised /\ c.ret = FALSE /\ c.after = c.before
            /\ c.outcome = "ok" =>
                   ~c.raised /\ c.ret = TRUE /\ c.after = c.before

\* a probe failed with the invalid-delegation error while the store held a
\* record with the probed connection id
C4_Witness ==
    /\ JustChecked
    /\ last_op[1].outcome = "bad_invalid"
    /\ HasRecordWith(last_op[1].before, last_op[1].connection_id)
    /\ last_op[1].after # last_op[1].before

\* C5: check_permissions never raises: whatever its probe comes back with it
\* returns a boolean, and the boolean is false for every error other than
\* the invalid-delegation one.
C5_CheckNeverRaises ==
    JustChecked =>
        LET c == last_op[1]
        IN  /\ ~c.raised
            /\ c.ret \in BOOLEAN
            /\ c.outcome \notin {"ok", "bad_invalid", "notfound_invalid"} =>
                   c.ret = FALSE

\* a probe failed with an exception that is neither TelegramBadRequest nor
\* TelegramNotFound
C5_Witness ==
    /\ JustChecked
    /\ last_op[1].outcome = "other"
    /\ last_op[1].ret = FALSE

\* C6 (as claimed): after a permission check whose probe failed with the
\* invalid-delegation error, and after the three sub-operations of a pipeline
\* run in which a call failed with that error, the store holds no record
\* with the connection id of the check or run.
C6_InvalidHandleRemoved ==
    /\ (JustChecked /\ HasInvalidText(last_op[1].outcome)) =>
           ~HasRecordWith(connections_data, last_op[1].connection_id)
    /\ \A r \in BagToSet(runs) :
           (r.pc = "notify" /\ r.saw_invalid) =>
               ~HasRecordWith(connections_data, r.connection_id)

\* C7: a record leaves the store (its owner has no record any more) only in
\* a step of check_permissions whose probe of the record's connection id
\* failed with the invalid-delegation error, and it changes (its owner has
\* another record instead) only in the handling of a new-connection event of
\* its owner; no other answer of a probe, and no step of a pipeline run or of
\* a notification, removes or alters a record.
C7_OnlyInvalidRemoves ==
    [][\A i \in 1..Len(connections_data) :
          LET rec == connections_data[i]
              kept == \E j \in 1..Len(connections_data') :
                          connections_data'[j] = rec
              owner_kept == \E j \in 1..Len(connections_data') :
                                connections_data'[j].user_id = rec.user_id
          IN  /\ ~owner_kept =>
                     /\ last_op' # <<>>
                     /\ last_op'[1].op = "check"
                     /\ last_op'[1].outcome \in {"bad_invalid", "notfound_invalid"}
                     /\ last_op'[1].connection_id = rec.connection_id
              /\ (owner_kept /\ ~kept) =>
                     /\ last_op' # <<>>
                     /\ last_op'[1].op = "connect"
                     /\ last_op'[1].user_id = rec.user_id]_vars

\* a probe has just failed with an error that is not the invalid-delegation
\* one, while a run on the same connection id has finished its three
\* sub-operations; the record is still in the store
C7_Witness ==
    /\ JustChecked
    /\ last_op[1].outcome \in {"bad_forbidden", "other"}
    /\ HasRecordWith(last_op[1].before, last_op[1].connection_id)
    /\ HasRecordWith(connections_data, last_op[1].connection_id)
    /\ \E r \in BagToSet(runs) :
           /\ r.pc = "notify"
           /\ r.connection_id = last_op[1].connection_id

Rank(op) == CASE op = "convert" -> 1 [] op = "transfer" -> 2 [] op = "stars" -> 3

\* C8: in every run the calls of the three sub-operations come strictly in
\* the order convert, transfer-items, transfer-balance: once a call of a
\* later sub-operation has been made, no call of an earlier one follows, also
\* when calls of the earlier sub-operation failed.
C8_SubOperationOrder ==
    \A r \in BagToSet(runs) :
        /\ \A m, n \in 1..Len(r.trace) :
               m < n => Rank(r.trace[m]) < Rank(r.trace[n])
        /\ r.pc \in {"transfer_enum", "transfer_call", "transfer_sleep"} =>
               r.trace \in {<<"convert">>, <<"convert", "transfer">>}
        /\ r.pc \in {"stars_query", "stars_transfer", "notify"} =>
               SubSeq(r.trace, 1, 2) = <<"convert", "transfer">>

\* a run has made the calls of all three sub-operations, its conversion
\* enumeration having failed and one of its item transfers too
C8_Witness ==
    \E r \in BagToSet(runs) :
        /\ r.pc = "notify"
        /\ r.trace = <<"convert", "transfer", "stars">>
        /\ r.converted_count = 0
        /\ r.transferred_count = 1
        /\ Len(r.attempts) = 2

Successes(attempts) == Cardinality({j \in 1..Len(attempts) : attempts[j].ok})

\* the per-item calls made so far are those of the gifts before gift i (and
\* of gift i once its call has come back), each once, in order
AttemptedOnce(run, upto) ==
    /\ Len(run.attempts) = upto
    /\ upto <= Len(run.gifts)
    /\ \A j \in 1..upto : run.attempts[j].gift = run.gifts[j]

\* C9: in the convert step and in the transfer-items step every enumerated
\* gift is attempted exactly once whatever the outcome of the others, and the
\* count the step returns is the number of gifts whose call succeeded: it lies
\* between 0 and the number N of enumerated gifts, and is N-1 when exactly one
\* call failed.
C9_PerItemIsolation ==
    \A r \in BagToSet(runs) :
        LET run == r
            N == Len(run.gifts)
            last == IF run.trace = <<>> THEN "none" ELSE run.trace[Len(run.trace)]
            count == IF last = "convert" THEN run.converted_count
                     ELSE run.transferred_count
        IN  last \in {"convert", "transfer"} =>
                /\ run.pc \in {"convert_call", "transfer_call"} =>
                       AttemptedOnce(run, run.i - 1)
                /\ run.pc \in {"convert_sleep", "transfer_sleep"} =>
                       AttemptedOnce(run, run.i)
                /\ run.pc \notin {"convert_call", "transfer_call",
                                  "convert_sleep", "transfer_sleep"} =>
                       /\ AttemptedOnce(run, N)
                       /\ count = Successes(run.attempts)
                       /\ 0 <= count /\ count <= N
                       /\ (N - Successes(run.attempts) = 1) => count = N - 1

\* the convert step has returned 1 for two gifts of which the first failed
C9_Witness ==
    \E r \in BagToSet(runs) :
        /\ r.pc = "transfer_enum"
        /\ Len(r.gifts) = 2
        /\ ~r.attempts[1].ok
        /\ r.attempts[2].ok
        /\ r.converted_count = 1

\* C10 (as claimed): whenever a per-item call other than the first of its
\* step is in flight, the fixed delay has elapsed since the previous per-item
\* call of the step, whether that call succeeded or failed.
C10_DelayBetweenCalls ==
    \A r \in BagToSet(runs) :
        r.pc \in {"convert_call", "transfer_call"} => r.delayed

\* the last step was the return of a call of the Bot API made by a run
JustCalled == last_op # <<>> /\ last_op[1].op = "call"

JustCalledMethod(method) == JustCalled /\ last_op[1].call.method = method

\* the last step was a notification of one operator
JustSent(kind) == last_op # <<>> /\ last_op[1].op = kind

RunPcs ==
    {"convert_enum", "convert_call", "convert_sleep",
     "transfer_enum", "transfer_call", "transfer_sleep",
     "stars_query", "stars_transfer", "notify"}

\* C11: a pipeline run never raises: whatever its calls come back with, the
\* run is at one of its calls, its delays or its summary (no exception has
\* left a sub-operation), its counts are numbers, a sub-operation whose
\* enumeration or query (or balance transfer) failed has returned 0 and the
\* next sub-operation follows, and after the last summary the run returns
\* the triple of its counts.
C11_RunNeverRaises ==
    /\ \A r \in BagToSet(runs) :
           /\ r.pc \in RunPcs
           /\ r.converted_count \in Nat
           /\ r.transferred_count \in Nat
           /\ r.transferred_stars \in Nat
    /\ (JustCalled /\ last_op[1].outcome # "ok") =>
           \A r \in BagToSet(runs) :
               LET c == last_op[1].call
               IN  /\ (c.method = "get_business_account_gifts" /\ c.exclude_unique) =>
                          r.converted_count = 0 /\ r.pc = "transfer_enum"
                   /\ (c.method = "get_business_account_gifts" /\ ~c.exclude_unique) =>
                          r.transferred_count = 0 /\ r.pc = "stars_query"
                   /\ c.method \in {"get_business_account_star_balance",
                                     "transfer_business_account_stars"} =>
                          r.transferred_stars = 0 /\ r.pc = "notify"
                   /\ c.method = "convert_gift_to_stars" =>
                          r.pc \in {"convert_call", "transfer_enum"}
                   /\ c.method = "transfer_gift" =>
                          r.pc \in {"transfer_call", "stars_query"}
    /\ (JustSent("summary") /\ last_op[1].done) =>
           /\ last_op[1].result \in Nat \X Nat \X Nat
           /\ last_op[1].result = last_op[1].before
           /\ runs = EmptyBag

\* the balance transfer has just failed in a run whose two item transfers
\* failed too; the run is at its summary with the counts 0
C11_Witness ==
    /\ JustCalledMethod("transfer_business_account_stars")
    /\ last_op[1].outcome = "other"
    /\ \E r \in BagToSet(runs) :
           /\ r.pc = "notify"
           /\ Len(r.attempts) = 2
           /\ \A j \in 1..2 : ~r.attempts[j].ok
           /\ Returned(r) = <<0, 0, 0>>

\* C12: the start notice and the final summary are each attempted once for
\* every operator of ADMIN_IDS, in order, also when deliveries fail: after
\* each attempt the operators attempted so far are the first ones of
\* ADMIN_IDS, the last of them being the one just attempted, the fan-out is
\* over exactly when all have been attempted, and the counts the run returns
\* are those it had before the summary.
C12_FanoutToEveryOperator ==
    (JustSent("notice") \/ JustSent("summary")) =>
        LET c == last_op[1]
        IN  /\ c.sent = SubSeq(ADMIN_IDS, 1, Len(c.sent))
            /\ c.to = ADMIN_IDS[Len(c.sent)]
            /\ c.done <=> Len(c.sent) = Len(ADMIN_IDS)
            /\ c.result = c.before

\* the summary has gone to the last operator and the run has ended, delivery
\* to the first operator having failed
C12_Witness ==
    /\ JustSent("summary")
    /\ last_op[1].done
    /\ last_op[1].delivered
    /\ last_op[1].failed = {ADMIN_IDS[1]}
    /\ last_op[1].sent = ADMIN_IDS

\* C19: when the enumeration of transfer_unique_gifts fails or returns no
\* gift, the step returns 0 and the next call of the run is the balance
\* query (no transfer_gift call is made); every transfer_gift call is made on
\* the run's connection id for a gift of the enumeration, and names
\* RECIPIENT_ID as the new owner and TRANSFER_FEE as the stars to pay.
C19_TransferItems ==
    /\ (/\ JustCalledMethod("get_business_account_gifts")
        /\ ~last_op[1].call.exclude_unique
        /\ (last_op[1].outcome # "ok" \/ last_op[1].value = 0)) =>
           \A r \in BagToSet(runs) :
               /\ r.pc = "stars_query"
               /\ r.transferred_count = 0
               /\ r.attempts = <<>>
    /\ JustCalledMethod("transfer_gift") =>
           /\ last_op[1].call.new_owner_chat_id = RECIPIENT_ID
           /\ last_op[1].call.star_count = TRANSFER_FEE
           /\ \A r \in BagToSet(runs) :
                  /\ last_op[1].call.business_connection_id = r.connection_id
                  /\ \E j \in 1..Len(r.gifts) :
                         r.gifts[j] = last_op[1].call.owned_gift_id

\* the transfer_gift call for the second of two enumerated gifts has come back
C19_Witness ==
    /\ JustCalledMethod("transfer_gift")
    /\ last_op[1].call.owned_gift_id = 2
    /\ \E r \in BagToSet(runs) : Len(r.gifts) = 2 /\ Len(r.attempts) = 2

\* C20 (as claimed): the balance is queried once; when the query returns an
\* amount greater than zero the run makes one transfer call, for the full
\* amount and naming the fixed recipient, and the step returns the amount if
\* the call succeeds and 0 if it fails; when the query returns zero or fails,
\* no transfer call is made and the step returns 0.
C20_TransferBalance ==
    /\ JustCalledMethod("get_business_account_star_balance") =>
           \A r \in BagToSet(runs) :
               IF last_op[1].outcome = "ok" /\ last_op[1].value > 0
               THEN r.pc = "stars_transfer" /\ r.stars = last_op[1].value
               ELSE r.pc = "notify" /\ r.transferred_stars = 0
    /\ JustCalledMethod("transfer_business_account_stars") =>
           /\ last_op[1].call.star_count > 0
           /\ "new_owner_chat_id" \in DOMAIN last_op[1].call
           /\ last_op[1].call.new_owner_chat_id = RECIPIENT_ID
           /\ \A r \in BagToSet(runs) :
                  /\ r.pc = "notify"
                  /\ r.transferred_stars =
                         IF last_op[1].outcome = "ok"
                         THEN last_op[1].call.star_count ELSE 0

\* the last step handled the event or request op
JustOp(op) == last_op # <<>> /\ last_op[1].op = op

\* the last step launched a run for a triggering event: the last start notice
\* of a new connection went out, or a business message matched a record
JustLaunchedByEvent ==
    \/ JustSent("notice") /\ last_op[1].done
    \/ JustOp("message") /\ runs # last_op[1].st.runs_before

\* the operators to whom the handler of the last step has attempted the
\* start notice (get_message sends none)
StartNotices == IF JustSent("notice") THEN last_op[1].sent ELSE <<>>

\* C13 (as claimed): whichever event launches a run, a new connection or a
\* business message, the start notice has been attempted for every operator
\* of ADMIN_IDS when the run is launched, and the run has made none of its
\* calls yet.
C13_StartNoticeBeforeRun ==
    JustLaunchedByEvent =>
        /\ StartNotices = ADMIN_IDS
        /\ \E r \in BagToSet(runs) : r.pc = Order[1] /\ r.trace = <<>>

\* C13 (amended): when a run is launched for a new connection the start
\* notice has been attempted for every operator of ADMIN_IDS, delivered or
\* not, and the run launched, on the connection id and with the label of the
\* event, has made none of its calls yet; a run launched by a business
\* message is launched with no start notice attempted.
C13_StartNoticeOnNewConnection ==
    /\ (JustSent("notice") /\ last_op[1].done) =>
           /\ StartNotices = ADMIN_IDS
           /\ BagIn(NewRun(last_op[1].connection_id, last_op[1].username), runs)
           /\ NewRun(last_op[1].connection_id, last_op[1].username).pc = Order[1]
           /\ NewRun(last_op[1].connection_id, last_op[1].username).trace = <<>>
    /\ (JustOp("message") /\ runs # last_op[1].st.runs_before) =>
           StartNotices = <<>>

\* the start notice of a new connection has been attempted for the last
\* operator, delivery to the first having failed, and the run is launched
C13_Witness ==
    /\ JustSent("notice")
    /\ last_op[1].done
    /\ last_op[1].failed = {ADMIN_IDS[1]}
    /\ BagIn(NewRun(11, "alice"), runs)

\* the store and the runs in flight before a business message for
\* connection id business_id, and the runs after it
MessageLaunches(c, how_many) ==
    /\ connections_data = c.st.before
    /\ IF how_many = 1
       THEN runs = Put(c.st.runs_before,
                       NewRun(c.business_id,
                              FirstWith(c.st.before, c.business_id)[1].username))
       ELSE runs = c.st.runs_before

\* C14 (as claimed): a business message never changes the store; when no
\* record carries its connection id no run is launched, and when one does
\* exactly one run is launched, on that connection id and with the label of
\* the record.
C14_MessageLaunchesOneRun ==
    JustOp("message") =>
        LET c == last_op[1]
        IN  MessageLaunches(c,
                IF FirstWith(c.st.before, c.business_id) # <<>> THEN 1 ELSE 0)

\* C14 (amended): a business message never changes the store; it launches
\* exactly one run, on its connection id and with the label of the first
\* record carrying that id, when such a record is stored and the sender is
\* not RECIPIENT_ID; it launches no run when no record carries the id or the
\* sender is RECIPIENT_ID.
C14_MessageNotFromRecipient ==
    JustOp("message") =>
        LET c == last_op[1]
        IN  MessageLaunches(c,
                IF /\ FirstWith(c.st.before, c.business_id) # <<>>
                   /\ c.user_id # RECIPIENT_ID
                THEN 1 ELSE 0)

\* a message on the connection of the owner without username, not sent by
\* RECIPIENT_ID, has launched one run labelled "Unknown"
C14_Witness ==
    /\ JustOp("message")
    /\ last_op[1].business_id = 12
    /\ last_op[1].user_id # RECIPIENT_ID
    /\ HasRecordWith(connections_data, 12)
    /\ BagIn(NewRun(12, "Unknown"), runs)
    /\ BagCardinality(runs) = BagCardinality(last_op[1].st.runs_before) + 1

\* the last step was the callback query of an operator with data "process_"
\* followed by rest
JustRequested(rest) ==
    /\ JustOp("callback_query")
    /\ is_admin(last_op[1].caller)
    /\ last_op[1].data = [prefix |-> "process_", rest |-> rest]

\* C17 (as claimed): when an operator presses "Process All" (callback data
\* "process_all") on a store that holds records, the bulk handler starts on
\* the records of the store, in their order, to launch one run for each.
C17_BulkLaunchesEveryRecord ==
    (JustRequested(ALL) /\ last_op[1].st.before # <<>>) =>
        \E t \in BagToSet(admin_tasks) :
            /\ t.handler = "process_all"
            /\ t.connections = last_op[1].st.before

\* C18 (as claimed): an operator's manual trigger for a connection id never
\* changes the store; when no record carries the id no run is launched, and
\* when one does the handler launches exactly one run, on that id and with
\* the label the record had at the request.
C18_ManualLaunchesOneRun ==
    /\ \A c \in Handles : JustRequested(c) =>
           /\ connections_data = last_op[1].st.before
           /\ runs = last_op[1].st.runs_before
           /\ ~HasRecordWith(connections_data, c) =>
                  \A t \in BagToSet(admin_tasks) : t.connection_id # c
    /\ JustOp("process_connection_answered") =>
           /\ connections_data = last_op[1].st.before
           /\ runs = Put(last_op[1].st.runs_before,
                         NewRun(last_op[1].task.connection_id,
                                last_op[1].task.username))

\* C16: the handler of a triggering event never waits for the run it
\* launches.  On a new connection the step that has attempted the last start
\* notice launches the run, which has made no call yet, and ends the handler
\* in the same step; a business message is handled in one step, which
\* leaves no handler behind; so every handler in flight is at one of its
\* start notices, whatever the runs in flight do.
C16_HandlerNeverWaits ==
    [][/\ (last_op' # <<>> /\ last_op'[1].op = "notice" /\ last_op'[1].done) =>
              \E t \in BagToSet(conn_tasks) :
                  /\ conn_tasks' = Take(conn_tasks, t)
                  /\ runs' = Put(runs, NewRun(t.connection_id, t.username))
                  /\ NewRun(t.connection_id, t.username).pc = Order[1]
       /\ (last_op' # <<>> /\ last_op'[1].op = "message") =>
              /\ conn_tasks' = conn_tasks
              /\ admin_tasks' = admin_tasks
       /\ \A t \in BagToSet(conn_tasks') : t.k <= Len(ADMIN_IDS)]_vars

\* a new-connection event has just been handled (its record is stored)
\* while the run launched by an earlier one is in the middle of its calls
C16_Witness ==
    /\ JustOp("connect")
    /\ last_op[1].user_id = 2
    /\ HasRecordWith(connections_data, 12)
    /\ \E r \in BagToSet(runs) : r.connection_id = 11 /\ r.pc = "stars_query"

\* the step to the primed state handled a triggering event that matched: the
\* last start notice of a new connection went out, or a business message
\* not sent by RECIPIENT_ID came on a connection id that a record carries
MatchedTrigger ==
    /\ last_op' # <<>>
    /\ \/ last_op'[1].op = "notice" /\ last_op'[1].done
       \/ /\ last_op'[1].op = "message"
          /\ last_op'[1].user_id # RECIPIENT_ID
          /\ FirstWith(connections_data, last_op'[1].business_id) # <<>>

\* the run a matched trigger launches
Launched ==
    IF last_op'[1].op = "notice"
    THEN NewRun(last_op'[1].connection_id, last_op'[1].username)
    ELSE NewRun(last_op'[1].business_id,
                FirstWith(connections_data, last_op'[1].business_id)[1].username)

\* C15: every run launched ends, whatever its calls come back with: once the
\* triggering events have stopped, no run stays in flight.  A run is at its
\* summary only after a call of each of the three sub-operations, none of
\* them begun twice, and the step that ends it has attempted the summary
\* once for every operator of ADMIN_IDS.  A step launches a run only for a
\* matched trigger, and then exactly one, added to the runs in flight also
\* when one of them is on the same connection id; no other step adds a run.
C15_EveryRunEnds ==
    /\ [](\A r \in BagToSet(runs) :
             /\ r.pc = "notify" => r.trace = <<"convert", "transfer", "stars">>
             /\ Len(r.trace) <= Len(Order)
             /\ r.sent # <<>> => r.pc = "notify"
             /\ r.sent = SubSeq(ADMIN_IDS, 1, r.k - 1))
    /\ []((JustSent("summary") /\ last_op[1].done) => last_op[1].sent = ADMIN_IDS)
    /\ [][IF MatchedTrigger
          THEN runs' = Put(runs, Launched)
          ELSE BagCardinality(runs') <= BagCardinality(runs)]_vars
    /\ <>[](runs = EmptyBag)

\* a run has just ended, its summary attempted for the last operator, while
\* a second run on the same connection id, launched by a business message
\* when the first was in flight, has not reached its summary
C15_Witness ==
    /\ JustSent("summary")
    /\ last_op[1].done
    /\ last_op[1].connection_id = 11
    /\ Len(events) > 1 /\ events[Len(events)] = "message"
    /\ \E r \in BagToSet(runs) : r.connection_id = 11 /\ r.pc # "notify"

\* C21: the total cost written in the summary is the transferred-item count
\* times the fee the process was configured with, exactly, for every count
\* and for the fees 0, 25 (also as the default) and 100; with it the summary
\* carries the three counts of the run unchanged.
C21_TotalCost ==
    (last_op # <<>> /\ last_op[1].op = "summary_text") =>
        LET counts == events[1].counts
            fee == CASE events[1].env = <<>> -> 25
                     [] events[1].env = <<0>> -> 0
                     [] events[1].env = <<2, 5>> -> 25
                     [] events[1].env = <<1, 0, 0>> -> 100
            text == last_op[1].summary
        IN  /\ ParseInt(text.total_cost) = counts[2] * fee
            /\ ParseInt(text.converted) = counts[1]
            /\ ParseInt(text.transferred) = counts[2]
            /\ ParseInt(text.stars) = counts[3]

\* 3 gifts converted, 2 transferred, 10 stars transferred, fee 25: the
\* summary says cost 50 and 10 stars transferred
C21_Witness ==
    /\ last_op # <<>> /\ last_op[1].op = "summary_text"
    /\ events[1].counts = <<3, 2, 10>>
    /\ events[1].env = <<2, 5>>
    /\ last_op[1].summary.total_cost = <<5, 0>>
    /\ last_op[1].summary.stars = <<1, 0>>

\* C22: load_connections and save_connections have snapshot semantics: the
\* list a caller gets holds the records of the store; when a caller appends
\* to its list, deletes from it or replaces an element of it, before or
\* after passing it to save_connections, the store is what it was; and a
\* save makes the store the elements of the list passed.
C22_SnapshotSemantics ==
    /\ JustOp("load") =>
           /\ connections_data = last_op[1].st.before
           /\ \E t \in BagToSet(admin_tasks) :
                  t.elements = connections_data /\ ~t.saved
    /\ JustOp("mutate") =>
           /\ connections_data = last_op[1].st.before
           /\ \E t \in BagToSet(admin_tasks) :
                  t.elements = last_op[1].elements
    /\ JustOp("save") => connections_data = last_op[1].list.elements

\* a caller has deleted the only record of a list it had saved before: the
\* store still holds the record
C22_Witness ==
    /\ JustOp("mutate")
    /\ last_op[1].list.saved
    /\ Len(last_op[1].list.elements) = 1
    /\ last_op[1].elements = <<>>
    /\ connections_data = last_op[1].list.elements

\* C23: the heartbeat emits its signal again and again: at every moment
\* another signal is still to come, whatever handlers and runs are in flight
\* and whether or not they ever move; the task is ready for its next signal
\* in every state, whatever the store and the runs are, and its step
\* changes neither the store nor any task.
C23_HeartbeatForEver ==
    /\ []<>(events # <<>> /\ events[1].odd)
    /\ []<>(events # <<>> /\ ~events[1].odd)
    /\ [](ENABLED <<HeartbeatStep>>_vars)
    /\ [](JustOp("heartbeat") =>
             /\ connections_data = last_op[1].st.before
             /\ runs = last_op[1].st.runs_before)
    /\ [][events' # events =>
             UNCHANGED <<connections_data, conn_tasks, stats_tasks, runs,
                         admin_tasks>>]_vars

\* a signal has just been emitted, not the first one, while MaxTasks runs
\* are in flight and a record is stored
C23_Witness ==
    /\ JustOp("heartbeat")
    /\ ~events[1].odd
    /\ BagCardinality(runs) = MaxTasks
    /\ connections_data # <<>>

\* the records of others than owner user_id, in order
Others(connections, user_id) ==
    SelectSeq(connections, LAMBDA r : r.user_id # user_id)

\* C24: every step that changes the store changes the store as it is at
\* that step, in one piece: it is the step of a new-connection event, which
\* leaves the records of the other owners as they are and in their order and
\* puts the record of the event, or the step of a probe that removes, which
\* leaves exactly the records with another connection id, in their order.
\* So no grant and no removal is undone by what another task had read
\* earlier.
C24_AtomicStoreMutations ==
    [][connections_data' # connections_data =>
          /\ last_op' # <<>>
          /\ \/ /\ last_op'[1].op = "connect"
                /\ Others(connections_data', last_op'[1].user_id)
                       = Others(connections_data, last_op'[1].user_id)
                /\ \E i \in 1..Len(connections_data') :
                       /\ connections_data'[i].user_id = last_op'[1].user_id
                       /\ connections_data'[i].connection_id
                              = last_op'[1].connection_id
             \/ /\ last_op'[1].op = "check"
                /\ last_op'[1].removal = "removed"
                /\ connections_data' =
                       SelectSeq(connections_data,
                           LAMBDA r : r.connection_id # last_op'[1].connection_id)]_vars

\* a probe has removed the record of one owner and left that of another
\* owner, granted after the statistics request had taken its snapshot of
\* one record
C24_Witness ==
    /\ JustOp("check")
    /\ last_op[1].removal = "removed"
    /\ Len(last_op[1].before) = 2
    /\ Len(connections_data) = 1
    /\ \E t \in BagToSet(stats_tasks) : t.total_connections = 1

\* C25: the removal after a probe that reports the connection invalid goes
\* by the connection id probed: when by then no record carries that id (its
\* owner has been granted another one while the probe was in flight), the
\* store is left as it is, the owner's record with the new id included, and
\* check_permissions returns false; in any case every record with another
\* connection id stays.
C25_RemovalKeyedByProbedHandle ==
    (JustChecked /\ last_op[1].outcome \in {"bad_invalid", "notfound_invalid"}) =>
        LET c == last_op[1]
        IN  /\ ~c.raised /\ c.ret = FALSE
            /\ connections_data = c.after
            /\ ~HasRecordWith(c.before, c.connection_id) => c.after = c.before
            /\ \A i \in 1..Len(c.before) :
                   c.before[i].connection_id # c.connection_id =>
                       \E j \in 1..Len(c.after) : c.after[j] = c.before[i]

\* a statistics request took its snapshot of the one record, with connection
\* id 11; owner 1 was then granted connection id 12 (the handler of that
\* event is still at its first notice); the probe of 11 has come back
\* invalid, and the store holds the record of owner 1 with 12
C25_Witness ==
    /\ JustChecked
    /\ last_op[1].outcome = "bad_invalid"
    /\ last_op[1].connection_id = 11
    /\ Len(connections_data) = 1
    /\ connections_data[1].user_id = 1
    /\ connections_data[1].connection_id = 12
    /\ last_op[1].before = connections_data
    /\ \E t \in BagToSet(conn_tasks) : t.connection_id = 12 /\ t.k = 1

\* C26: a command from an identity that is not in ADMIN_IDS (list, manual
\* menu, manual trigger, bulk, statistics) is answered "denied" where it is
\* answered at once, and leaves everything as it was: the store, the runs in
\* flight (no run launched), the statistics requests in flight (no probe
\* to come) and the other handlers.
C26_OperatorsOnly ==
    (JustOp("command") /\ last_op[1].caller \notin {901, 902}) =>
        LET c == last_op[1]
        IN  /\ connections_data = c.st.before
            /\ runs = c.st.runs_before
            /\ stats_tasks = c.st.stats_before
            /\ admin_tasks = c.st.admin_before
            /\ conn_tasks = c.st.conn_before
            /\ c.command \in {"view_connections", "manual_process"} =>
                   c.answer.answer = "denied" /\ c.answer.lines = <<>>

\* the stranger has asked for statistics while two records are stored
C26_Witness ==
    /\ JustOp("command")
    /\ last_op[1].caller = 555
    /\ last_op[1].command = "show_stats"
    /\ Len(connections_data) = 2
    /\ stats_tasks = EmptyBag

\* C27: a business message whose sender is RECIPIENT_ID launches no run and
\* changes nothing, also when a record carries the connection id of the
\* message.
C27_RecipientLaunchesNothing ==
    (JustOp("message") /\ last_op[1].user_id = RECIPIENT_ID) =>
        /\ runs = last_op[1].st.runs_before
        /\ connections_data = last_op[1].st.before
        /\ \A r \in BagToSet(runs) :
               r.pc = Order[1] /\ r.trace = <<>> =>
                   BagIn(r, last_op[1].st.runs_before)

\* a message of RECIPIENT_ID has come on connection id 11, of which the
\* store holds the record, and no run is in flight
C27_Witness ==
    /\ JustOp("message")
    /\ last_op[1].user_id = RECIPIENT_ID
    /\ last_op[1].business_id = 11
    /\ HasRecordWith(connections_data, 11)
    /\ runs = EmptyBag

\* the probes of a history that returned true
TrueProbes(history) ==
    Cardinality({j \in 2..Len(history) : history[j].ret})

\* C28: when a statistics request sends its report, the records of the
\* snapshot it took at its start have been probed once each, in order; the
\* total reported is the size of the snapshot and the active count reported
\* is the number of probes that returned true, so it lies between 0 and the
\* total; this also when a probe removed a record or a new connection
\* arrived during the request.  While the request is in progress the probes
\* made are those of the first records of the snapshot.
C28_StatisticsOverSnapshot ==
    /\ JustOp("stats") =>
           LET c == last_op[1]
               snapshot == c.history[1].connections
           IN  /\ c.total_connections = Len(snapshot)
               /\ Len(c.history) = 1 + Len(snapshot)
               /\ \A j \in 1..Len(snapshot) :
                      c.history[j + 1].connection_id = snapshot[j]
               /\ c.active_count = TrueProbes(c.history)
               /\ 0 <= c.active_count /\ c.active_count <= c.total_connections
    /\ \A t \in BagToSet(stats_tasks) :
           LET snapshot == events[1].connections
           IN  /\ t.total_connections = Len(snapshot)
               /\ Len(events) - 1 + Len(t.connections) = Len(snapshot)
               /\ t.connections = SubSeq(snapshot, Len(events), Len(snapshot))
               /\ t.active_count = TrueProbes(events)

\* the report of a request that took a snapshot of one record: its probe
\* removed the record, a new connection arrived meanwhile, and the store
\* now holds one record, with a connection id that was not in the snapshot
C28_Witness ==
    /\ JustOp("stats")
    /\ last_op[1].total_connections = 1
    /\ last_op[1].active_count = 0
    /\ last_op[1].history[2].removal = "removed"
    /\ Len(connections_data) = 1
    /\ connections_data[1].connection_id # last_op[1].history[1].connections[1]

====
